---- MODULE Spec2Model ----
(***************************************************************************)
(* hashomatic: lazyhash (recursive digest engine over the Hasher           *)
(* accumulator) and crystallize (canonicalizer).                           *)
(*                                                                         *)
(* Byte strings are sequences of items.  An item is a raw byte, or the 16  *)
(* digest bytes of md5 over some content, or the 32 hex characters of such *)
(* a digest.  md5 is kept symbolic: the digest of a content is the content *)
(* wrapped in one item, so md5 is injective on the byte strings it is fed. *)
(***************************************************************************)
EXTENDS Integers, Sequences, FiniteSets, TLC

\* ------------------------------------------------------------------ bounds
MaxLen == 2        \* longest container drawn as an input
MaxHashers == 2    \* Hasher objects alive in the accumulator machine
MaxUpdates == 3    \* items held by all md5 states of the accumulator machine
MaxCrystals == 2   \* canonical objects alive in the canonical-object machine
MaxOps == 2        \* operations tried on the canonical objects

\* ------------------------------------------------------------ byte strings
Byte(n) == [k |-> "b", n |-> n, c |-> << >>]
DigestItem(content) == [k |-> "d", n |-> 0, c |-> content]
HexItem(content) == [k |-> "x", n |-> 0, c |-> content]

Ascii(codes) == IF codes = << >> THEN << >>
                ELSE [i \in 1..Len(codes) |-> Byte(codes[i])]

Reverse(s) == IF s = << >> THEN << >>
              ELSE [i \in 1..Len(s) |-> s[Len(s) + 1 - i]]

KindRank(k) == CASE k = "b" -> 0 [] k = "x" -> 1 [] OTHER -> 2

RECURSIVE BytesCmp(_, _)
RECURSIVE ItemCmp(_, _)
\* order of md5(a).digest() against md5(b).digest(): -1, 0, 1.  md5 being
\* injective, distinct contents have distinct digests; which one is the
\* smaller is fixed by md5 and is here read off the contents back to front.
Md5Cmp(a, b) == BytesCmp(Reverse(a), Reverse(b))

ItemCmp(i, j) ==
    IF i.k # j.k THEN (IF KindRank(i.k) < KindRank(j.k) THEN -1 ELSE 1)
    ELSE IF i.k = "b" THEN (IF i.n < j.n THEN -1 ELSE IF i.n > j.n THEN 1 ELSE 0)
    ELSE Md5Cmp(i.c, j.c)

\* lexicographic comparison of two byte strings (bytes.__lt__, str.__lt__)
BytesCmp(a, b) ==
    IF a = << >> THEN (IF b = << >> THEN 0 ELSE -1)
    ELSE IF b = << >> THEN 1
    ELSE LET h == ItemCmp(Head(a), Head(b))
         IN IF h # 0 THEN h ELSE BytesCmp(Tail(a), Tail(b))

\* hashlib.md5: a state is the bytes fed so far
hashf == << >>
Md5Update(msg, data) == msg \o data
Md5Digest(msg) == << DigestItem(msg) >>
Md5HexDigest(msg) == << HexItem(msg) >>

\* ------------------------------------------------------------ Python values
\* t: type name, n: number or object identity, s: text/bytes/md5 state,
\* v: children in iteration order (a dict's children are its items)
Val(t, n, s, v) == [t |-> t, n |-> n, s |-> s, v |-> v]
PyNone == Val("NoneType", 0, << >>, << >>)
PyBool(b) == Val("bool", IF b THEN 1 ELSE 0, << >>, << >>)
PyInt(n) == Val("int", n, << >>, << >>)
PyFloat(n) == Val("float", n, << >>, << >>)          \* the float n.0
PyStr(s) == Val("str", 0, s, << >>)
PyBytes(s) == Val("bytes", 0, s, << >>)
PyList(v) == Val("list", 0, << >>, v)
PyTuple(v) == Val("tuple", 0, << >>, v)
PySet(v) == Val("set", 0, << >>, v)
PyFrozenset(v) == Val("frozenset", 0, << >>, v)
PyItem(key, value) == Val("item", 0, << >>, << key, value >>)
PyDict(items) == Val("dict", 0, << >>, items)
PyIter(id, v) == Val("list_iterator", id, << >>, v)  \* v: elements not yet yielded
PyObject(id) == Val("object", id, << >>, << >>)
PyHasher(msg) == Val("Hasher", 0, msg, << >>)
PyMd5(msg) == Val("HASH", 0, msg, << >>)

IsStr(a) == a.t = "str"
IsBytes(a) == a.t \in {"bytes", "CrystalBytes"}
IsNum(a) == a.t \in {"bool", "int", "float"}
IsDict(a) == a.t \in {"dict", "Crystal"}
IsTuple(a) == a.t \in {"tuple", "CrystalTuple"}
IsList(a) == a.t = "list"
IsSet(a) == a.t = "set"
IsSetLike(a) == a.t \in {"set", "frozenset"}
IsHasher(a) == a.t = "Hasher"
IsJsonPrimitive(a) == a.t \in {"str", "int", "float", "bool", "NoneType"}
IsMapping(a) == IsDict(a)
IsIterable(a) == a.t \in {"str", "bytes", "CrystalBytes", "list", "tuple",
                          "CrystalTuple", "set", "frozenset", "dict",
                          "Crystal", "list_iterator"}

Key(item) == item.v[1]
Value(item) == item.v[2]

\* containers compared position by position, and containers compared as sets
Ordered(a) == IsList(a) \/ IsTuple(a) \/ a.t = "item"
SameClass(a, b) ==
    \/ IsList(a) /\ IsList(b)
    \/ IsTuple(a) /\ IsTuple(b)
    \/ a.t = "item" /\ b.t = "item"
    \/ IsSetLike(a) /\ IsSetLike(b)
    \/ IsDict(a) /\ IsDict(b)

\* Python ==
RECURSIVE PyEq(_, _)
PyEq(a, b) ==
    IF IsNum(a) /\ IsNum(b) THEN a.n = b.n
    ELSE IF (IsStr(a) /\ IsStr(b)) \/ (IsBytes(a) /\ IsBytes(b)) THEN a.s = b.s
    ELSE IF IsHasher(a) /\ IsHasher(b) THEN Md5Digest(a.s) = Md5Digest(b.s)
    ELSE IF a.t = "NoneType" /\ b.t = "NoneType" THEN TRUE
    ELSE IF SameClass(a, b)
         THEN /\ Len(a.v) = Len(b.v)
              /\ \A i \in 1..Len(a.v) :
                    \E j \in (IF Ordered(a) THEN {i} ELSE 1..Len(b.v)) :
                        PyEq(a.v[i], b.v[j])
    ELSE IF a.t = b.t /\ a.t \in {"object", "list_iterator"} THEN a.n = b.n
    ELSE FALSE

\* x in v
Contains(v, x) == \E j \in 1..Len(v) : PyEq(v[j], x)

\* first position where two sequences differ, 0 when one is a prefix
FirstDiff(u, w) ==
    LET m == IF Len(u) < Len(w) THEN Len(u) ELSE Len(w)
        diff == {i \in 1..m : ~PyEq(u[i], w[i])}
    IN IF diff = {} THEN 0 ELSE CHOOSE i \in diff : \A k \in diff : i <= k

\* Python a < b: "lt", "ge", or "err" when it raises TypeError
RECURSIVE PyLess(_, _)
PyLess(a, b) ==
    IF IsNum(a) /\ IsNum(b) THEN (IF a.n < b.n THEN "lt" ELSE "ge")
    ELSE IF (IsStr(a) /\ IsStr(b)) \/ (IsBytes(a) /\ IsBytes(b))
         THEN (IF BytesCmp(a.s, b.s) < 0 THEN "lt" ELSE "ge")
    ELSE IF (IsList(a) /\ IsList(b)) \/ (IsTuple(a) /\ IsTuple(b))
         THEN LET i == FirstDiff(a.v, b.v)
              IN IF i = 0 THEN (IF Len(a.v) < Len(b.v) THEN "lt" ELSE "ge")
                 ELSE PyLess(a.v[i], b.v[i])
    ELSE IF IsSetLike(a) /\ IsSetLike(b)
         THEN IF /\ Len(a.v) < Len(b.v)
                 /\ \A i \in 1..Len(a.v) : Contains(b.v, a.v[i])
              THEN "lt" ELSE "ge"
    ELSE "err"

\* ------------------------------------------------------------------ Hasher
Ok(s) == [ok |-> TRUE, s |-> s]
Raise == [ok |-> FALSE, s |-> << >>]

\* Hasher(data): the md5 state of the new accumulator, or a TypeError
HasherInit(data) ==
    IF data.t = "NoneType" THEN Ok(hashf)
    ELSE IF data.t \in {"Hasher", "HASH"} THEN Ok(Md5Update(data.s, << >>))
    ELSE IF IsBytes(data) THEN Ok(Md5Update(hashf, data.s))
    ELSE Raise

HasherDigest(msg) == Md5Digest(msg)
HasherHexDigest(msg) == Md5HexDigest(msg)
HasherUpdate(msg, data) == Md5Update(msg, data)
\* self + other, other a Hasher: self.update(other.digest())
HasherAdd(msg, other) == HasherUpdate(msg, HasherDigest(other))

HasherEq(a, b) == HasherDigest(a) = HasherDigest(b)
HasherLt(a, b) == BytesCmp(HasherDigest(a), HasherDigest(b)) <= 0
HasherGt(a, b) == BytesCmp(HasherDigest(a), HasherDigest(b)) >= 0

\* ------------------------------------------------------------------ sorted
\* a < b as sorted() asks it: "hasher" Hasher.__lt__, "str" str.__lt__,
\* "key" the < of two arbitrary objects
Less(tag, a, b) ==
    CASE tag = "hasher" -> IF HasherLt(a, b) THEN "lt" ELSE "ge"
      [] tag = "str" -> IF BytesCmp(a, b) < 0 THEN "lt" ELSE "ge"
      [] OTHER -> PyLess(a, b)

SortRaise == [ok |-> FALSE, s |-> << >>]

\* what s[i] < s[j] answers, for the positions i, j of the list
Answers(tag, s) ==
    [i \in 1..Len(s) |-> [j \in 1..Len(s) |-> Less(tag, s[i], s[j])]]

\* The sort below moves positions of the list; lt holds the answers of <.
\* length of the run that starts the list; 0 when a comparison raises
RECURSIVE CountRun(_, _, _, _)
CountRun(lt, p, n, desc) ==
    IF n = Len(p) THEN n
    ELSE IF lt[p[n + 1]][p[n]] = "err" THEN 0
    ELSE IF (lt[p[n + 1]][p[n]] = "lt") = desc THEN CountRun(lt, p, n + 1, desc)
    ELSE n

\* insertion point of pivot in p[l..r-1]; 0 when a comparison raises
RECURSIVE BinSearch(_, _, _, _, _)
BinSearch(lt, p, pivot, l, r) ==
    IF l >= r THEN l
    ELSE LET m == l + ((r - l) \div 2)
         IN IF lt[pivot][p[m]] = "err" THEN 0
            ELSE IF lt[pivot][p[m]] = "lt" THEN BinSearch(lt, p, pivot, l, m)
            ELSE BinSearch(lt, p, pivot, m + 1, r)

RECURSIVE BinarySort(_, _, _)
BinarySort(lt, p, start) ==
    IF start > Len(p) THEN [ok |-> TRUE, s |-> p]
    ELSE LET l == BinSearch(lt, p, p[start], 1, start)
         IN IF l = 0 THEN SortRaise
            ELSE BinarySort(lt,
                     SubSeq(p, 1, l - 1) \o << p[start] >> \o
                     SubSeq(p, l, start - 1) \o SubSeq(p, start + 1, Len(p)),
                     start + 1)

\* the run that starts the list is found, reversed when it descends, and the
\* rest is inserted into it
ListSort(lt, p) ==
    LET desc == lt[2][1] = "lt"
        n == CountRun(lt, p, 2, desc)
    IN IF lt[2][1] = "err" \/ n = 0 THEN SortRaise
       ELSE BinarySort(lt,
                IF desc THEN Reverse(SubSeq(p, 1, n)) \o SubSeq(p, n + 1, Len(p))
                ELSE p,
                n + 1)

\* the elements of s in the order r of their positions
Arrange(s, r) ==
    IF r.ok THEN [ok |-> TRUE, s |-> [i \in 1..Len(s) |-> s[r.s[i]]]] ELSE SortRaise

\* sorted(s): the built-in list sort on a short list (one run, then binary
\* insertion), asking only <
Sorted(tag, s) ==
    IF Len(s) < 2 THEN [ok |-> TRUE, s |-> s]
    ELSE Arrange(s, ListSort(Answers(tag, s), [i \in 1..Len(s) |-> i]))

\* ---------------------------------------------------------------- lazyhash
S_int == << 105, 110, 116 >>
S_float == << 102, 108, 111, 97, 116 >>
S_bool == << 98, 111, 111, 108 >>
S_type_open == << 116, 121, 112, 101, 40, 60, 99, 108, 97, 115, 115, 32, 39 >>
S_type_close == << 39, 62, 41 >>

\* full_typename(o) for the types of the model
full_typename(a) ==
    CASE a.t = "int" -> S_int
      [] a.t = "float" -> S_float
      [] a.t = "bool" -> S_bool
      [] a.t = "dict" -> << 100, 105, 99, 116 >>
      [] a.t = "list" -> << 108, 105, 115, 116 >>
      [] a.t = "tuple" -> << 116, 117, 112, 108, 101 >>
      [] a.t = "set" -> << 115, 101, 116 >>
      [] a.t = "frozenset" -> << 102, 114, 111, 122, 101, 110, 115, 101, 116 >>
      [] a.t = "list_iterator" ->
            << 108, 105, 115, 116, 95, 105, 116, 101, 114, 97, 116, 111, 114 >>
      [] a.t = "Crystal" ->
            << 104, 97, 115, 104, 111, 109, 97, 116, 105, 99, 46, 99, 114, 121,
               115, 116, 97, 108, 46, 67, 114, 121, 115, 116, 97, 108 >>
      [] a.t = "CrystalTuple" ->
            << 104, 97, 115, 104, 111, 109, 97, 116, 105, 99, 46, 99, 114, 121,
               115, 116, 97, 108, 46, 67, 114, 121, 115, 116, 97, 108, 84, 117,
               112, 108, 101 >>
      [] OTHER -> << >>

\* decimal digits of a natural number
RECURSIVE Digits(_)
Digits(n) == IF n < 10 THEN << 48 + n >> ELSE Digits(n \div 10) \o << 48 + (n % 10) >>

\* str(a) of a non-negative number
NumText(a) ==
    CASE a.t = "bool" -> IF a.n = 1 THEN << 84, 114, 117, 101 >>
                         ELSE << 70, 97, 108, 115, 101 >>
      [] a.t = "float" -> Digits(a.n) \o << 46, 48 >>
      [] OTHER -> Digits(a.n)

\* stringer(type(d)).encode(): "type(<class '...'>)"
stringer(d) == Ascii(S_type_open \o full_typename(d) \o S_type_close)

\* str.encode()
Encode(a) == a.s

\* position of key in the items of a dict (d[key])
DictIndex(items, key) == CHOOSE i \in 1..Len(items) : PyEq(Key(items[i]), key)

\* tmp[key] = value on a list of items
DictSet(items, key, value) ==
    IF \E i \in 1..Len(items) : PyEq(Key(items[i]), key)
    THEN [i \in 1..Len(items) |->
             IF PyEq(Key(items[i]), key) THEN PyItem(Key(items[i]), value)
             ELSE items[i]]
    ELSE Append(items, PyItem(key, value))

RECURSIVE lazyhash(_)

\* lazyhash of each element in turn
HashEach(v) == [i \in 1..Len(v) |-> lazyhash(v[i])]
AnyRaise(rs) == \E i \in 1..Len(rs) : ~rs[i].ok

\* for h in hs: msg += h
RECURSIVE Combine(_, _)
Combine(msg, hs) ==
    IF hs = << >> THEN msg ELSE Combine(HasherAdd(msg, Head(hs)), Tail(hs))

\* lazyhash(a) of a str
StrHash(a) == HasherInit(PyBytes(Encode(a)))

\* msg = Hasher(stringer(type(d)).encode()); for k in d: msg += lazyhash(k)
_lazyhash_iter(d) ==
    LET rs == HashEach(d.v)
    IN IF AnyRaise(rs) THEN Raise
       ELSE Ok(Combine(HasherInit(PyBytes(stringer(d))).s,
                       [i \in 1..Len(rs) |-> rs[i].s]))

\* lazyhash(k) of each Hasher k
Copies(hs) == [i \in 1..Len(hs) |-> HasherInit(PyHasher(hs[i])).s]

\* d2 = [lazyhash(x) for x in d]; for k in sorted(d2): msg += lazyhash(k)
_lazyhash_set(d) ==
    LET rs == HashEach(d.v)
    IN IF AnyRaise(rs) THEN Raise
       ELSE Ok(Combine(HasherInit(PyBytes(stringer(d))).s,
                       Copies(Sorted("hasher", [i \in 1..Len(rs) |-> rs[i].s]).s)))

\* {str(lazyhash(k)): k for k in d}: << hex, position of the key >> pairs in
\* insertion order, a later key with the same hex taking the place of the
\* earlier one
RECURSIVE KeyHashes(_, _, _)
KeyHashes(hexes, i, acc) ==
    IF i > Len(hexes) THEN acc
    ELSE KeyHashes(hexes, i + 1,
             IF \E j \in 1..Len(acc) : acc[j][1] = hexes[i]
             THEN [j \in 1..Len(acc) |->
                     IF acc[j][1] = hexes[i] THEN << hexes[i], i >> ELSE acc[j]]
             ELSE Append(acc, << hexes[i], i >>))

\* keyhashes[khash], as the position of the key
Lookup(keyhashes, khash) ==
    (CHOOSE p \in {keyhashes[j] : j \in 1..Len(keyhashes)} : p[1] = khash)[2]

\* for khash in srt:
\*     msg += lazyhash(khash); msg += lazyhash(d[keyhashes[khash]])
\* rs holds lazyhash of every key, then of every value, in iteration order
DictFold(d, rs, keyhashes, srt) ==
    LET ValueHash(khash) ==
            rs[Len(d.v) + DictIndex(d.v, Key(d.v[Lookup(keyhashes, khash)]))]
    IN IF \E j \in 1..Len(srt) : ~ValueHash(srt[j]).ok THEN Raise
       ELSE Ok(Combine(HasherInit(PyBytes(stringer(d))).s,
                       [j \in 1..(2 * Len(srt)) |->
                           IF j % 2 = 1 THEN StrHash(PyStr(srt[(j + 1) \div 2])).s
                           ELSE ValueHash(srt[j \div 2]).s]))

\* sorted(keyhashes)
SortedKeys(keyhashes) ==
    Sorted("str", [j \in 1..Len(keyhashes) |-> keyhashes[j][1]]).s

DictSorted(d, rs, keyhashes) == DictFold(d, rs, keyhashes, SortedKeys(keyhashes))

_lazyhash_dict(d) ==
    LET n == Len(d.v)
        rs == HashEach([i \in 1..(2 * n) |->
                           IF i <= n THEN Key(d.v[i]) ELSE Value(d.v[i - n])])
    IN IF \E i \in 1..n : ~rs[i].ok THEN Raise
       ELSE DictSorted(d, rs,
                KeyHashes([i \in 1..n |-> HasherHexDigest(rs[i].s)], 1, << >>))

\* the branch of lazyhash that a is sent to, the tests in the order of the code
Branch(a) ==
    IF a.t = "HASH" THEN "hasher"
    ELSE IF IsHasher(a) THEN "hasher"
    ELSE IF IsStr(a) THEN "str"
    ELSE IF IsBytes(a) THEN "bytes"
    ELSE IF IsNum(a) THEN "number"
    ELSE IF IsDict(a) THEN "dict"
    ELSE IF IsList(a) \/ IsTuple(a) THEN "iter"
    ELSE IF IsSet(a) THEN "set"
    ELSE IF IsMapping(a) THEN "dict"
    ELSE IF IsIterable(a) THEN "iter"
    ELSE "fallback"

lazyhash(a) ==
    LET br == Branch(a)
    IN IF br = "dict" THEN _lazyhash_dict(a)
       ELSE IF br = "iter" THEN _lazyhash_iter(a)
       ELSE IF br = "set" THEN _lazyhash_set(a)
       ELSE IF br = "str" THEN StrHash(a)
       ELSE HasherInit(
                IF br = "number"
                THEN PyBytes(Ascii(full_typename(a) \o << 40 >> \o NumText(a) \o << 41 >>))
                ELSE a)

\* ------------------------------------------------------------- crystallize
COk(val) == [ok |-> TRUE, val |-> val]
CRaise == [ok |-> FALSE, val |-> PyNone]

CrystalBytes(b) == Val("CrystalBytes", 0, b.s, << >>)
Crystal(items) == Val("Crystal", 0, << >>, items)

RECURSIVE crystallize(_)

\* crystallize of each element in turn
CrystalEach(v) == [i \in 1..Len(v) |-> crystallize(v[i])]
AnyCRaise(rs) == \E i \in 1..Len(rs) : ~rs[i].ok

\* tuple.__new__(CrystalTuple, (crystallize(x) for x in iterable))
CrystalTuple(iterable) ==
    LET rs == CrystalEach(iterable.v)
    IN IF AnyCRaise(rs) THEN CRaise
       ELSE COk(Val("CrystalTuple", 0, << >>, [i \in 1..Len(rs) |-> rs[i].val]))

\* tmp[k1] = v1; tmp[k2] = v2; ... for kv = << v1, k1, v2, k2, ... >>
RECURSIVE Assign(_, _)
Assign(tmp, kv) ==
    IF kv = << >> THEN tmp
    ELSE Assign(DictSet(tmp, kv[2], kv[1]), Tail(Tail(kv)))

\* for k in srt: tmp[crystallize(k)] = crystallize(obj[k])
MappingFold(obj, srt) ==
    LET rs == CrystalEach([j \in 1..(2 * Len(srt.s)) |->
                              IF j % 2 = 1
                              THEN Value(obj.v[DictIndex(obj.v, srt.s[(j + 1) \div 2])])
                              ELSE srt.s[j \div 2]])
    IN IF ~srt.ok \/ AnyCRaise(rs) THEN CRaise
       ELSE COk(Crystal(Assign(<< >>, [j \in 1..Len(rs) |-> rs[j].val])))

mapping_crystallize(obj) ==
    MappingFold(obj, Sorted("key", [i \in 1..Len(obj.v) |-> Key(obj.v[i])]))

crystallize(obj) ==
    IF IsJsonPrimitive(obj) THEN COk(obj)
    ELSE IF IsMapping(obj) THEN mapping_crystallize(obj)
    ELSE IF IsBytes(obj) THEN COk(CrystalBytes(obj))
    ELSE IF IsIterable(obj) THEN CrystalTuple(obj)
    ELSE CRaise

\* ------------------------------------------------- the argument after a call
Fails(fn, a) == IF fn = "lazyhash" THEN ~lazyhash(a).ok ELSE ~crystallize(a).ok

\* the element at which the walk over v stops: the first one on which the
\* call raises, the last one when there is none
StopAt(fn, v) ==
    IF \E i \in 1..Len(v) : Fails(fn, v[i])
    THEN CHOOSE i \in 1..Len(v) : \A k \in 1..i : Fails(fn, v[k]) <=> k = i
    ELSE Len(v)

\* "for k in d" / "for x in iterable" takes the elements out of an iterator,
\* up to and including the first one on which the call raises; lists and
\* tuples keep their elements, which are walked in the same way.  Iterators
\* are drawn only as arguments and as elements of lists and tuples.
RECURSIVE After(_, _)
Walked(fn, a, last) ==
    IF a.t = "list_iterator" THEN PyIter(a.n, SubSeq(a.v, last + 1, Len(a.v)))
    ELSE Val(a.t, a.n, a.s,
             [i \in 1..Len(a.v) |-> IF i <= last THEN After(fn, a.v[i]) ELSE a.v[i]])

After(fn, a) ==
    IF a.v = << >> \/ ~(a.t = "list_iterator" \/ IsList(a) \/ IsTuple(a)) THEN a
    ELSE Walked(fn, a, StopAt(fn, a.v))

\* ------------------------------------------------------------------ inputs
A == Ascii(<< 97 >>)

Scalars == {PyNone, PyBool(FALSE), PyBool(TRUE), PyInt(0), PyInt(1), PyFloat(0),
            PyStr(<< >>), PyStr(A), PyBytes(<< >>), PyBytes(A)}

Unknowns == {PyObject(1)}

Elems == {PyInt(1), PyStr(A), PyBytes(A), PyObject(1), PyHasher(A),
          PyIter(1, << PyInt(1) >>)}

SetElems == {PyNone, PyBool(FALSE), PyInt(0), PyInt(1), PyStr(A), PyBytes(A)}

KeyPool == {PyNone, PyInt(0), PyInt(1), PyStr(<< >>), PyStr(A), PyBytes(A),
            PyFrozenset(<< PyInt(1) >>), PyFrozenset(<< PyStr(A) >>)}

ValPool == {PyInt(1), PyDict(<< PyItem(PyInt(2), PyInt(4)) >>)}

Seqs(E) == UNION {[1..m -> E] : m \in 0..MaxLen}

\* element lists a set or a dict can hold: no two equal, one aliasing iterator
Distinct(s) == \A i, j \in 1..Len(s) : i # j => ~PyEq(s[i], s[j])


\* one iterator object is not drawn twice into the same list
NoSharedIter(s) ==
    \A i, j \in 1..Len(s) :
        i # j /\ s[i].t = "list_iterator" /\ s[j].t = "list_iterator" => s[i].n # s[j].n

ElemSeqs == {s \in Seqs(Elems) : NoSharedIter(s)}
ScalarSeqs == {s \in Seqs(SetElems) : Distinct(s)}
ItemSeqs == {s \in Seqs({PyItem(key, val) : key \in KeyPool, val \in ValPool}) :
                Distinct([i \in 1..Len(s) |-> Key(s[i])])}

Values ==
    Scalars \cup Unknowns
    \cup {PyHasher(<< >>), PyHasher(A), PyMd5(A)}
    \cup {PyList(s) : s \in ElemSeqs} \cup {PyTuple(s) : s \in ElemSeqs}
    \cup {PySet(s) : s \in ScalarSeqs} \cup {PyFrozenset(s) : s \in ScalarSeqs}
    \cup {PyDict(s) : s \in ItemSeqs}
    \cup {PyIter(1, s) : s \in Seqs({PyInt(1), PyObject(1)})}

IsScalar(a) == a \in Scalars
IsContainer(a) == a.t \in {"list", "tuple", "set", "frozenset", "dict"}

Reorder(s, p) == IF s = << >> THEN << >> ELSE [i \in 1..Len(s) |-> s[p[i]]]
Reorderings(a) == {Val(a.t, a.n, a.s, Reorder(a.v, p)) : p \in Permutations(1..Len(a.v))}

\* the second value of a run: another scalar, or the same container built
\* with its entries in another order
Variants(a) ==
    IF IsScalar(a) THEN Scalars
    ELSE IF IsContainer(a) THEN Reorderings(a)
    ELSE {a}

\* ------------------------------------------------------------------- state
VARIABLES obj, hres, cres, ccres, msgs, hashers, parent, cmp, crystals, hashed
vars == << obj, hres, cres, ccres, msgs, hashers, parent, cmp, crystals, hashed >>
callVars == << obj, hres, cres, ccres >>
accVars == << msgs, hashers, parent, cmp >>
crystalVars == << crystals, hashed >>

NoH == [st |-> "none", arg |-> PyNone, s |-> << >>]
NoC == [st |-> "none", arg |-> PyNone, val |-> PyNone]
NoCmp == [done |-> FALSE, a |-> << >>, b |-> << >>, eq |-> FALSE, lt |-> FALSE, gt |-> FALSE]

AccIdle ==
    /\ msgs = << >> /\ hashers = << >> /\ parent = << >>
    /\ cmp = NoCmp

CrystalsIdle == crystals = << >> /\ hashed = << >>

CallsIdle ==
    /\ obj = [i \in 1..2 |-> PyNone]
    /\ hres = [i \in 1..2 |-> NoH]
    /\ cres = [i \in 1..2 |-> NoC]
    /\ ccres = [i \in 1..2 |-> NoC]

\* ------------------------------------------- calls of lazyhash / crystallize
Init ==
    /\ \E x \in Values : \E y \in Variants(x) : obj = << x, y >>
    /\ hres = [i \in 1..2 |-> NoH]
    /\ cres = [i \in 1..2 |-> NoC]
    /\ ccres = [i \in 1..2 |-> NoC]
    /\ AccIdle
    /\ CrystalsIdle

HRes(arg, r) == [st |-> IF r.ok THEN "ok" ELSE "raise", arg |-> arg, s |-> r.s]
CRes(arg, r) == [st |-> IF r.ok THEN "ok" ELSE "raise", arg |-> arg, val |-> r.val]

\* hres[i] = lazyhash(obj[i])
Lazyhash(i) ==
    /\ hres[i].st = "none"
    /\ hres' = [hres EXCEPT ![i] = HRes(obj[i], lazyhash(obj[i]))]
    /\ obj' = [obj EXCEPT ![i] = After("lazyhash", obj[i])]
    /\ UNCHANGED << cres, ccres, accVars, crystalVars >>

\* cres[i] = crystallize(obj[i])
Crystallize(i) ==
    /\ cres[i].st = "none"
    /\ cres' = [cres EXCEPT ![i] = CRes(obj[i], crystallize(obj[i]))]
    /\ obj' = [obj EXCEPT ![i] = After("crystallize", obj[i])]
    /\ UNCHANGED << hres, ccres, accVars, crystalVars >>

\* ccres[i] = crystallize(cres[i])
Recrystallize(i) ==
    /\ cres[i].st = "ok"
    /\ ccres[i].st = "none"
    /\ ccres' = [ccres EXCEPT ![i] = CRes(cres[i].val, crystallize(cres[i].val))]
    /\ UNCHANGED << obj, hres, cres, accVars, crystalVars >>

Next == \E i \in 1..2 : Lazyhash(i) \/ Crystallize(i) \/ Recrystallize(i)

Spec == Init /\ [][Next]_vars

\* ------------------------------------------------- the Hasher accumulators
\* msgs: the md5 objects alive; hashers[i]: the md5 object Hasher i holds in
\* .msg; parent[i]: the Hasher that i was forked from, 0 when it was built
\* from data; cmp: the last comparison made, with the digests it compared.
AccData == {PyBytes(<< >>), PyBytes(A)}

Msg(i) == msgs[hashers[i]]
Digest(i) == HasherDigest(Msg(i))

\* items fed to the md5 objects alive
RECURSIVE Fed(_)
Fed(ms) == IF ms = << >> THEN 0 ELSE Len(Head(ms)) + Fed(Tail(ms))

\* md5.copy(): a new md5 object in the state of object m
Md5CopyShared(ms, m) == [msgs |-> ms, ref |-> m]
Md5Copy(ms, m) == [msgs |-> Append(ms, ms[m]), ref |-> Len(ms) + 1]

InitAcc ==
    /\ AccIdle
    /\ CallsIdle
    /\ CrystalsIdle

\* h = Hasher(data)
New(data) ==
    /\ Len(hashers) < MaxHashers
    /\ HasherInit(data).ok
    /\ msgs' = Append(msgs, HasherInit(data).s)
    /\ hashers' = Append(hashers, Len(msgs) + 1)
    /\ parent' = Append(parent, 0)
    /\ UNCHANGED << cmp, callVars, crystalVars >>

\* c = Hasher(h): self.msg = data.msg.copy(); self.msg.update(b"")
NewFrom(i) ==
    /\ Len(hashers) < MaxHashers
    /\ LET cp == Md5Copy(msgs, hashers[i])
       IN /\ msgs' = [cp.msgs EXCEPT ![cp.ref] = Md5Update(@, << >>)]
          /\ hashers' = Append(hashers, cp.ref)
    /\ parent' = Append(parent, i)
    /\ UNCHANGED << cmp, callVars, crystalVars >>

\* c = h.copy(): result = Hasher(); result.msg = self.msg.copy()
Copy(i) ==
    /\ Len(hashers) < MaxHashers
    /\ LET cp == Md5Copy(msgs, hashers[i])
       IN /\ msgs' = cp.msgs
          /\ hashers' = Append(hashers, cp.ref)
    /\ parent' = Append(parent, i)
    /\ UNCHANGED << cmp, callVars, crystalVars >>

\* h.update(data)
Update(i, data) ==
    /\ Fed(msgs) < MaxUpdates
    /\ msgs' = [msgs EXCEPT ![hashers[i]] = HasherUpdate(@, data.s)]
    /\ UNCHANGED << hashers, parent, cmp, callVars, crystalVars >>

\* h + other, other a Hasher
Add(i, j) ==
    /\ Fed(msgs) < MaxUpdates
    /\ msgs' = [msgs EXCEPT ![hashers[i]] = HasherAdd(@, Msg(j))]
    /\ UNCHANGED << hashers, parent, cmp, callVars, crystalVars >>

\* h + data, data not a Hasher: other = Hasher(data)
AddData(i, data) ==
    /\ Fed(msgs) < MaxUpdates
    /\ HasherInit(data).ok
    /\ msgs' = [msgs EXCEPT ![hashers[i]] = HasherAdd(@, HasherInit(data).s)]
    /\ UNCHANGED << hashers, parent, cmp, callVars, crystalVars >>

\* a == b, a < b, a > b
Compare(i, j) ==
    /\ cmp' = [done |-> TRUE, a |-> Digest(i), b |-> Digest(j),
               eq |-> HasherEq(Msg(i), Msg(j)),
               lt |-> HasherLt(Msg(i), Msg(j)), gt |-> HasherGt(Msg(i), Msg(j))]
    /\ UNCHANGED << msgs, hashers, parent, callVars, crystalVars >>

NextAcc ==
    \/ \E data \in AccData \cup {PyNone} : New(data)
    \/ \E i \in 1..Len(hashers) : NewFrom(i)
    \/ \E i \in 1..Len(hashers) : Copy(i)
    \/ \E i \in 1..Len(hashers) : \E data \in AccData : Update(i, data)
    \/ \E i, j \in 1..Len(hashers) : Add(i, j)
    \/ \E i \in 1..Len(hashers) : \E data \in AccData : AddData(i, data)
    \/ \E i, j \in 1..Len(hashers) : Compare(i, j)

SpecHasher == InitAcc /\ [][NextAcc]_vars

\* ------------------------------------------------- the canonical objects
\* crystals[i]: a canonical object, with its contents when it was built
\* (built), its contents now (now), how it was built (by) and the number of
\* operations tried on it (ops); hashed[i]: the last hash(crystals[i]) taken.
\* Crystal is a dict with __hash__, crystallize and copy added: item
\* assignment, item deletion, update and clear are those of dict.  CrystalTuple
\* and CrystalBytes are a tuple and a bytes: they have none of the four.
CrystalKeys == {PyStr(<< >>), PyStr(A)}
Nested == PyDict(<< PyItem(PyStr(A), PyDict(<< PyItem(PyInt(2), PyInt(4)) >>)) >>)
CrystalDicts ==
    {PyDict(s) : s \in {u \in Seqs({PyItem(key, PyInt(1)) : key \in CrystalKeys}) :
                           Distinct([i \in 1..Len(u) |-> Key(u[i])])}}
    \cup {Nested}
Freezables == CrystalDicts \cup {PyList(<< PyInt(1) >>), PyBytes(A)}

\* cls.crystallize(d): tmp = cls.__new__(cls); for key, value in d.items():
\* tmp[key] = value
Crystal_crystallize(d) ==
    Crystal(Assign(<< >>, [j \in 1..(2 * Len(d.v)) |->
                              IF j % 2 = 1 THEN Value(d.v[(j + 1) \div 2])
                              ELSE Key(d.v[j \div 2])]))

\* Crystal(d): the dict constructor
Crystal_new(d) == Crystal(d.v)

\* self.copy()
Crystal_copy(self) == Crystal_crystallize(self)

\* del d[key]
DictDel(items, key) == SelectSeq(items, LAMBDA it : ~PyEq(Key(it), key))

\* d.update(other)
RECURSIVE DictUpdate(_, _)
DictUpdate(items, other) ==
    IF other = << >> THEN items
    ELSE DictUpdate(DictSet(items, Key(Head(other)), Value(Head(other))), Tail(other))

\* The int that hash(a) returns for a str, a bytes, None or a tuple is named
\* by what it was computed from (for a tuple, the hashes of its elements):
\* the built-in hash is taken to be injective on these.
SymHash(a) == Val("int", 0, << >>, << a >>)

RECURSIVE PyHash(_)

\* hash of each element in turn
PyHashEach(v) == [i \in 1..Len(v) |-> PyHash(v[i])]

\* hash(tmp)
HashOfResult(tmp) == IF tmp.ok THEN PyHash(tmp.val) ELSE CRaise

\* tmp = CrystalTuple(((hash(k), hash(v)) for k, v in self.items()))
\* return hash(tmp)
Crystal__hash__(self) ==
    LET hk == PyHashEach([i \in 1..Len(self.v) |-> Key(self.v[i])])
        hv == PyHashEach([i \in 1..Len(self.v) |-> Value(self.v[i])])
    IN IF AnyCRaise(hk) \/ AnyCRaise(hv) THEN CRaise
       ELSE HashOfResult(CrystalTuple(PyIter(0,
                [i \in 1..Len(self.v) |-> PyTuple(<< hk[i].val, hv[i].val >>)])))

\* tuple.__hash__: computed from the hashes of the elements, in their order
TupleHash(hs) ==
    IF AnyCRaise(hs) THEN CRaise
    ELSE COk(SymHash(PyTuple([i \in 1..Len(hs) |-> hs[i].val])))

\* hash(a), for the values the canonical objects here hold; a list, a dict
\* and a set are unhashable, a number is hashed to its value
PyHash(a) ==
    IF a.t = "Crystal" THEN Crystal__hash__(a)
    ELSE IF a.t \in {"list", "dict", "set"} THEN CRaise
    ELSE IF IsNum(a) THEN COk(Val("int", a.n, a.s, a.v))
    ELSE IF IsTuple(a) THEN TupleHash(PyHashEach(a.v))
    ELSE COk(SymHash(a))

RECURSIVE Ops(_)
Ops(cs) == IF cs = << >> THEN 0 ELSE Head(cs).ops + Ops(Tail(cs))

Built(val, how) == [built |-> val, now |-> val, by |-> how, ops |-> 0]
Store(val, how) ==
    /\ Len(crystals) < MaxCrystals
    /\ crystals' = Append(crystals, Built(val, how))
    /\ hashed' = Append(hashed, NoC)
    /\ UNCHANGED << callVars, accVars >>

\* the contents of crystals[i] are now val, after one more operation
Edit(i, val) ==
    /\ Ops(crystals) < MaxOps
    /\ crystals' = [crystals EXCEPT ![i].now = val, ![i].ops = @ + 1]
    /\ UNCHANGED << hashed, callVars, accVars >>

IsCrystal(i) == crystals[i].now.t = "Crystal"
Items(i) == crystals[i].now.v

InitCrystal ==
    /\ CrystalsIdle
    /\ CallsIdle
    /\ AccIdle

\* c = crystallize(x)
Freeze(x) ==
    /\ crystallize(x).ok
    /\ Store(crystallize(x).val, "crystallize")

\* c = Crystal.crystallize(d)
FromMapping(d) == Store(Crystal_crystallize(d), "Crystal.crystallize")

\* c = Crystal(d)
Construct(d) == Store(Crystal_new(d), "Crystal")

\* c = crystals[i].copy()
CopyCrystal(i) ==
    /\ IsCrystal(i)
    /\ Store(Crystal_copy(crystals[i].now), "copy")

\* crystals[i][key] = value; a TypeError on a tuple or a bytes
SetItem(i, key, value) ==
    Edit(i, IF IsCrystal(i) THEN Crystal(DictSet(Items(i), key, value))
            ELSE crystals[i].now)

\* del crystals[i][key]; a KeyError when the key is absent
DelItem(i, key) ==
    Edit(i, IF IsCrystal(i) THEN Crystal(DictDel(Items(i), key))
            ELSE crystals[i].now)

\* crystals[i].update(d); an AttributeError on a tuple or a bytes
UpdateCrystal(i, d) ==
    Edit(i, IF IsCrystal(i) THEN Crystal(DictUpdate(Items(i), d.v))
            ELSE crystals[i].now)

\* crystals[i].clear()
ClearCrystal(i) ==
    Edit(i, IF IsCrystal(i) THEN Crystal(<< >>) ELSE crystals[i].now)

\* hashed[i] = hash(crystals[i])
Hash(i) ==
    /\ hashed[i].st = "none"
    /\ hashed' = [hashed EXCEPT ![i] = CRes(crystals[i].now, PyHash(crystals[i].now))]
    /\ UNCHANGED << crystals, callVars, accVars >>

NextCrystal ==
    \/ \E x \in Freezables : Freeze(x)
    \/ \E d \in CrystalDicts : FromMapping(d)
    \/ \E d \in CrystalDicts : Construct(d)
    \/ \E i \in 1..Len(crystals) : CopyCrystal(i)
    \/ \E i \in 1..Len(crystals) : \E key \in CrystalKeys : SetItem(i, key, PyInt(2))
    \/ \E i \in 1..Len(crystals) : \E key \in CrystalKeys : DelItem(i, key)
    \/ \E i \in 1..Len(crystals) :
          UpdateCrystal(i, PyDict(<< PyItem(PyStr(A), PyInt(2)) >>))
    \/ \E i \in 1..Len(crystals) : ClearCrystal(i)
    \/ \E i \in 1..Len(crystals) : Hash(i)

SpecCrystal == InitCrystal /\ [][NextCrystal]_vars

\* ------------------------------------------------------------------ claims
DigestOf(h) == HasherDigest(msgs[hashers[h]])

\* C6: a fork (h.copy() or Hasher(h)) yields a new accumulator on an md5
\* object of its own whose digest equals the digest of h, and a step changes
\* the digest of at most one accumulator: an update or + applied to one of c
\* and h leaves the digest of the other as it was.
ForkIndependence ==
    [][ /\ ( /\ Len(hashers') = Len(hashers) + 1
             /\ parent'[Len(hashers')] # 0 )
           => LET c == Len(hashers')
                  h == parent'[c]
              IN /\ HasherDigest(msgs'[hashers'[c]]) = DigestOf(h)
                 /\ HasherDigest(msgs'[hashers'[h]]) = DigestOf(h)
                 /\ \A k \in 1..Len(hashers) : hashers'[k] # hashers'[c]
        /\ Cardinality({k \in 1..Len(hashers) :
                           HasherDigest(msgs'[hashers'[k]]) # DigestOf(k)}) <= 1
      ]_vars

\* a fork and its origin that have since diverged
ForkDiverged ==
    \E c \in 1..Len(hashers) :
        /\ parent[c] # 0
        /\ DigestOf(c) # DigestOf(parent[c])
        /\ Len(msgs[hashers[c]]) > Len(msgs[hashers[parent[c]]])

\* C10: ==, < and > of two accumulators are the equality and the strict
\* byte-lexicographic order of their digest bytes: a == b iff the digests are
\* equal, a < b iff digest(a) is strictly smaller, a > b iff strictly larger.
ComparisonIsStrictOrder ==
    cmp.done =>
        LET c == BytesCmp(cmp.a, cmp.b)
        IN /\ cmp.eq <=> (c = 0)
           /\ cmp.lt <=> (c < 0)
           /\ cmp.gt <=> (c > 0)

SameResult(i, j) == hres[i].st = hres[j].st /\ hres[i].s = hres[j].s
BothHashed == hres[1].st # "none" /\ hres[2].st # "none"

\* C1: lazyhash of a mapping is the same digest for every insertion order of
\* the same key -> value entries, whatever the types of the keys.
MappingKeyOrderIndependent ==
    ( /\ BothHashed
      /\ hres[1].arg.t = "dict"
      /\ hres[2].arg \in Reorderings(hres[1].arg) )
    => SameResult(1, 2)

\* C2: lazyhash of a set or a set-like value (frozenset) is the same digest
\* for every iteration order of the same elements.
SetOrderInsensitive ==
    ( /\ BothHashed
      /\ IsSetLike(hres[1].arg)
      /\ hres[2].arg \in Reorderings(hres[1].arg) )
    => SameResult(1, 2)

\* C3: two scalars of different semantic types (null, bool, int, float,
\* string, byte-blob) never have the same digest.
TypeSeparation ==
    ( /\ BothHashed
      /\ IsScalar(hres[1].arg) /\ IsScalar(hres[2].arg)
      /\ hres[1].arg.t # hres[2].arg.t )
    => HasherDigest(hres[1].s) # HasherDigest(hres[2].s)

\* C4: a list or tuple and a reordering of it that holds, at some position,
\* an element not equal to the one the original has there, have different
\* digests.
SequenceOrderSensitive ==
    ( /\ hres[1].st = "ok" /\ hres[2].st = "ok"
      /\ IsList(hres[1].arg) \/ IsTuple(hres[1].arg)
      /\ hres[2].arg \in Reorderings(hres[1].arg)
      /\ \E k \in 1..Len(hres[1].arg.v) : ~PyEq(hres[1].arg.v[k], hres[2].arg.v[k]) )
    => HasherDigest(hres[1].s) # HasherDigest(hres[2].s)

\* C5: wherever crystallize(v) returns, crystallize(crystallize(v)) returns
\* too and equals crystallize(v).
FreezeIdempotent ==
    \A i \in 1..2 :
        (cres[i].st = "ok" /\ ccres[i].st # "none")
        => (ccres[i].st = "ok" /\ PyEq(ccres[i].val, cres[i].val))

\* C7: after lazyhash(v) or crystallize(v) has returned, v is as it was
\* before the call, iterators included.
InputNotMutated ==
    \A i \in 1..2 :
        /\ (hres[i].st = "ok" /\ cres[i].st = "none") => obj[i] = hres[i].arg
        /\ (cres[i].st = "ok" /\ hres[i].st = "none") => obj[i] = cres[i].arg

\* C8: lazyhash of a value of no known kind returns a digest and does not
\* raise.
UnknownFallbackNeverFails ==
    \A i \in 1..2 :
        (hres[i].st # "none" /\ hres[i].arg \in Unknowns) => hres[i].st = "ok"

\* the canonical elements are in the order of their digests
RECURSIVE DigestSorted(_)
DigestSorted(v) ==
    \/ Len(v) < 2
    \/ /\ BytesCmp(HasherDigest(lazyhash(v[1]).s), HasherDigest(lazyhash(v[2]).s)) <= 0
       /\ DigestSorted(Tail(v))

\* C9: crystallize of a set is the sequence of its canonical elements sorted
\* by digest, the same sequence for every iteration order of the set.
SetCanonicalSorted ==
    /\ \A i \in 1..2 :
          (cres[i].st = "ok" /\ IsSet(cres[i].arg)) => DigestSorted(cres[i].val.v)
    /\ ( /\ cres[1].st = "ok" /\ cres[2].st = "ok"
         /\ IsSet(cres[1].arg)
         /\ cres[2].arg \in Reorderings(cres[1].arg) )
       => cres[1].val = cres[2].val

\* C11: an object returned by crystallize keeps, in every later state and
\* whatever is done to it (item assignment, item deletion, update, clear),
\* the contents it had when it was built.
CanonicalImmutable ==
    \A i \in 1..Len(crystals) :
        crystals[i].by = "crystallize" => crystals[i].now = crystals[i].built

\* C12: two Crystal objects that compare equal have the same hash, whatever
\* the order of their entries and however they were built.
HashEqualityConsistent ==
    \A i, j \in 1..Len(hashed) :
        /\ hashed[i].st = "ok" /\ hashed[j].st = "ok"
        /\ hashed[i].arg.t = "Crystal" /\ hashed[j].arg.t = "Crystal"
        /\ PyEq(hashed[i].arg, hashed[j].arg)
        => hashed[i].val = hashed[j].val

====
